---- MODULE Spec2Model ----
(***************************************************************************)
(* oclip: positional-argument definitions (src/src/args.ts) and the        *)
(* Command constructor / exec dispatch (src/src/command.ts).               *)
(*                                                                         *)
(* Three specifications share the module:                                  *)
(*   SpecDefs  validateArgDefs applied to an argument-spec list            *)
(*   SpecBind  one call of validateArgs, step by step                      *)
(*   Spec      Command construction and exec                               *)
(***************************************************************************)
EXTENDS Integers, Sequences, FiniteSets, TLC

\* ------------------------------------------------------------------ bounds
MaxDefs == 2
MaxTokens == 3
MaxArgv == 2

\* ------------------------------------------------------------------ values
\* JavaScript values are modelled as strings: raw tokens, parsed values
\* ("#0", "#1"), a default value ("d") and undefined.  An array hole reads as
\* undefined, so a hole is stored as Undef.
Undef == "undefined"
Tokens == {"a", "0", "1"}

\* !v of JavaScript, for the values of the model
Falsy(v) == v \in {Undef, "", "#0"}

SeqsUpTo(S, n) == UNION {[1..k -> S] : k \in 0..n}

Min(x, y) == IF x < y THEN x ELSE y

\* args[i] of a JavaScript array (0-based; outside the array: undefined)
At(arr, i) == IF i >= 0 /\ i < Len(arr) THEN arr[i + 1] ELSE Undef

RECURSIVE Holes(_)
Holes(n) == IF n <= 0 THEN <<>> ELSE <<Undef>> \o Holes(n - 1)

\* args[i] = v of a JavaScript array: writing past the end grows the array
SetAt(arr, i, v) ==
  IF i < 0 THEN arr
  ELSE IF i < Len(arr) THEN [arr EXCEPT ![i + 1] = v]
  ELSE arr \o Holes(i - Len(arr)) \o <<v>>

\* arr.slice(from) and arr.slice(0, to) of a JavaScript array, from, to >= 0
SliceFrom(arr, from) == SubSeq(arr, from + 1, Len(arr))
SliceTo(arr, to) == SubSeq(arr, 1, Min(to, Len(arr)))

\* ------------------------------------------------------------------ Arg
\* interface Arg<T>: the fields the validator and the binder read.
\*   choices: "none" (absent), "list" (string[]) or "fn" (a supplier, awaited)
\*   parse:   "identity" (the builder's default, s => s) or "int" (a user
\*            parser: "0" -> 0, "1" -> 1, throws on anything else)
\*   default: "none" (absent) or the value the supplier resolves to
ChoiceList == <<"a", "1">>

ArgOpts ==
  { [choices |-> "none", parse |-> "identity", default |-> "none"],
    [choices |-> "list", parse |-> "identity", default |-> "none"],
    [choices |-> "fn",   parse |-> "int",      default |-> "none"],
    [choices |-> "none", parse |-> "identity", default |-> "d"],
    [choices |-> "none", parse |-> "identity", default |-> Undef],
    [choices |-> "none", parse |-> "int",      default |-> "#0"] }

UnsetId == -1

Arg ==
  { [id |-> UnsetId, required |-> r, rest |-> t,
     choices |-> o.choices, parse |-> o.parse, default |-> o.default] :
       r \in BOOLEAN, t \in BOOLEAN, o \in ArgOpts }

parseThrows(def, input) == def.parse = "int" /\ input \notin {"0", "1"}

parse(def, input) ==
  IF def.parse = "identity" THEN input
  ELSE IF input = "0" THEN "#0" ELSE "#1"

\* ------------------------------------------------------------------ state
VARIABLES
  heap,         \* the Arg objects, by reference 1..Len(heap)
  argDefs,      \* an argument list: references into heap, in order
  argv,         \* the tokens given to the call
  defsOutcome,  \* SpecDefs: "pending", "ok" or the message thrown
  bind,         \* SpecBind: the running validateArgs call
  forOf,        \* Spec: how the build compiled for..of, "iterator" or "indexed"
  cmds,         \* Spec: the Command objects
  frames,       \* Spec: the exec calls of the current top-level invocation
  stdout,       \* Spec: what console.log has written
  builders,     \* SpecBuilder: the default options of the builders made
  built,        \* SpecBuilder: the last call of a builder and the spec it returned
  binds         \* SpecShare: the validateArgs calls in flight

vars == <<heap, argDefs, argv, defsOutcome, bind, forOf, cmds, frames, stdout,
          builders, built, binds>>
cmdVars == <<forOf, cmds, frames, stdout>>
otherVars == <<builders, built, binds>>

Deref(h, refs) == [i \in 1..Len(refs) |-> h[refs[i]]]

\* ------------------------------------------------------------------ validateArgDefs
RequiredAfterOptional == "required arguments may not follow optional arguments"
RestNotLast == "rest args must be the last ones defined"

RECURSIVE validateFrom(_, _, _)
validateFrom(defs, i, state) ==
  IF i > Len(defs) THEN "ok"
  ELSE LET def == defs[i] IN
    CASE state = "required" ->
           validateFrom(defs, i + 1,
             IF def.rest THEN "rest"
             ELSE IF ~def.required THEN "optional" ELSE "required")
      [] state = "optional" ->
           IF def.required THEN RequiredAfterOptional
           ELSE validateFrom(defs, i + 1, IF def.rest THEN "rest" ELSE "optional")
      [] OTHER -> RestNotLast

validateNothingRequiredAfterOptional(defs) == validateFrom(defs, 1, "required")

validateArgDefs(defs) == validateNothingRequiredAfterOptional(defs)

\* ------------------------------------------------------------------ SpecDefs
InitLists ==
  /\ heap \in SeqsUpTo(Arg, MaxDefs)
  /\ argDefs = [i \in 1..Len(heap) |-> i]

NoBind == [pc |-> "idle"]

NoCommands ==
  /\ forOf = "iterator"
  /\ cmds = <<>>
  /\ frames = <<>>
  /\ stdout = <<>>

NoBuilders ==
  /\ builders = <<>>
  /\ built = <<>>
  /\ binds = <<>>

InitDefs ==
  /\ InitLists
  /\ NoBuilders
  /\ argv = <<>>
  /\ defsOutcome = "pending"
  /\ bind = NoBind
  /\ NoCommands

CallValidateArgDefs ==
  /\ defsOutcome = "pending"
  /\ defsOutcome' = validateArgDefs(Deref(heap, argDefs))
  /\ UNCHANGED <<heap, argDefs, argv, bind, cmdVars, otherVars>>

NextDefs == CallValidateArgDefs

SpecDefs == InitDefs /\ [][NextDefs]_vars

\* The tag of a spec and the shape required* optional* rest?
Tag(def) == IF def.rest THEN "rest" ELSE IF def.required THEN "required" ELSE "optional"

TagsOf(defs) == [i \in 1..Len(defs) |-> Tag(defs[i])]

Monotonic(tags) ==
  \E k \in 0..Len(tags) : \E m \in 0..(Len(tags) - k) :
    /\ \A i \in 1..k : tags[i] = "required"
    /\ \A i \in (k + 1)..(k + m) : tags[i] = "optional"
    /\ Len(tags) - (k + m) <= 1
    /\ \A i \in (k + m + 1)..Len(tags) : tags[i] = "rest"

\* C1: validateArgDefs succeeds exactly when the tag sequence (rest when the
\* rest flag is set, otherwise required/optional by the required flag) has
\* the shape required* optional* rest?, and throws a definition error
\* otherwise.
C1_SucceedsIffMonotonic ==
  defsOutcome # "pending" =>
    /\ defsOutcome \in {"ok", RequiredAfterOptional, RestNotLast}
    /\ (defsOutcome = "ok") <=> Monotonic(TagsOf(Deref(heap, argDefs)))

\* ------------------------------------------------------------------ validateArgs
\* Errors thrown by validateArgs.  kind: "Error" is the plain Error of the
\* choices check (its message names input and choices), "ParseError" is
\* whatever the user's parse function throws.
Thrown(kind, input, choices, specs, values) ==
  [kind |-> kind, input |-> input, choices |-> choices, specs |-> specs, values |-> values]

NoError == Thrown("none", Undef, <<>>, <<>>, <<>>)

RECURSIVE addIdFrom(_, _, _)
addIdFrom(h, defs, i) ==
  IF i >= Len(defs) THEN h
  ELSE addIdFrom([h EXCEPT ![defs[i + 1]].id = i], defs, i + 1)

addIdToArgs(h, defs) == addIdFrom(h, defs, 0)

RECURSIVE reduceOptional(_, _, _)
reduceOptional(defs, i, total) ==
  IF i > Len(defs) THEN total
  ELSE reduceOptional(defs, i + 1, IF defs[i].rest THEN -1 ELSE total + 1)

numOptionalArgs(defs) == reduceOptional(defs, 1, 0)

includes(choices, input) == \E j \in 1..Len(choices) : choices[j] = input

\* The frame of one validateArgs call.
\*   todo      what is left of defs.slice(0, args.length)
\*   missing   what is left of defs.slice(args.length)
\*   parsed    the parse calls made: <<slot index, input>>
\*   supplied  the default suppliers invoked: references
NewBind(defs, args) ==
  [pc |-> "start", defs |-> defs, args |-> args, maxArgs |-> 0,
   todo |-> <<>>, missing |-> <<>>, parsed |-> <<>>, supplied |-> <<>>,
   err |-> NoError]

\* line 156, reached when the first loop has run out
toMissing(b) ==
  IF b.pc = "tokens" /\ b.todo = <<>>
  THEN [b EXCEPT !.pc = "defaults", !.missing = SliceFrom(b.defs, Len(b.args))]
  ELSE b

\* line 158 with nothing left to fill
toChecks(b) ==
  IF b.pc = "defaults" /\ b.missing = <<>> THEN [b EXCEPT !.pc = "checks"] ELSE b

\* lines 140-145: stamp the ids, compute the maximum, take the slice
enterHeap(h, b) == addIdToArgs(h, b.defs)

enter(h, b) ==
  toChecks(toMissing(
    [b EXCEPT !.pc = "tokens",
              !.maxArgs = numOptionalArgs(Deref(h, b.defs)),
              !.todo = SliceTo(b.defs, Len(b.args))]))

\* bindToken with the choices tested on the converted value
bindTokenChoicesOnParsed(h, b) ==
  LET def == h[Head(b.todo)]
      input == At(b.args, def.id)
  IN
    IF parseThrows(def, input)
    THEN [b EXCEPT !.pc = "thrown",
                   !.parsed = Append(@, <<def.id, input>>),
                   !.err = Thrown("ParseError", input, <<>>, <<>>, <<>>)]
    ELSE IF def.choices # "none" /\ ~includes(ChoiceList, parse(def, input))
    THEN [b EXCEPT !.pc = "thrown",
                   !.parsed = Append(@, <<def.id, input>>),
                   !.err = Thrown("Error", parse(def, input), ChoiceList, <<>>, <<>>)]
    ELSE toChecks(toMissing(
           [b EXCEPT !.args = SetAt(@, def.id, parse(def, input)),
                     !.parsed = Append(@, <<def.id, input>>),
                     !.todo = Tail(@)]))

\* lines 147-153: the choices check and the parse of an input read before
checkAndParse(h, b, input) ==
  LET def == h[Head(b.todo)] IN
    IF def.choices # "none" /\ ~includes(ChoiceList, input)
    THEN [b EXCEPT !.pc = "thrown",
                   !.err = Thrown("Error", input, ChoiceList, <<>>, <<>>)]
    ELSE IF parseThrows(def, input)
    THEN [b EXCEPT !.pc = "thrown",
                   !.parsed = Append(@, <<def.id, input>>),
                   !.err = Thrown("ParseError", input, <<>>, <<>>, <<>>)]
    ELSE toChecks(toMissing(
           [b EXCEPT !.args = SetAt(@, def.id, parse(def, input)),
                     !.parsed = Append(@, <<def.id, input>>),
                     !.todo = Tail(@)]))

\* lines 145-154: one iteration of the loop over the supplied specs
bindToken(h, b) == checkAndParse(h, b, At(b.args, h[Head(b.todo)].id))

\* lines 158-162: one iteration of the loop over the missing specs
fillDefault(h, b) ==
  LET ref == Head(b.missing)
      def == h[ref]
      arg == IF def.default = "none" THEN Undef ELSE def.default
  IN
    toChecks(
      [b EXCEPT !.args = IF arg = Undef THEN @ ELSE SetAt(@, def.id, arg),
                !.supplied = IF def.default = "none" THEN @ ELSE Append(@, ref),
                !.missing = Tail(@)])

\* the filter with presence tested by the position being there
RECURSIVE missingRequiredByPresenceFrom(_, _, _, _)
missingRequiredByPresenceFrom(h, defs, args, i) ==
  IF i > Len(defs) THEN <<>>
  ELSE (IF h[defs[i]].required /\ At(args, h[defs[i]].id) = Undef
        THEN <<defs[i]>> ELSE <<>>)
       \o missingRequiredByPresenceFrom(h, defs, args, i + 1)

\* defs.filter(a => a.required && !args[a.id]), as references
RECURSIVE missingRequiredFrom(_, _, _, _)
missingRequiredFrom(h, defs, args, i) ==
  IF i > Len(defs) THEN <<>>
  ELSE (IF h[defs[i]].required /\ Falsy(At(args, h[defs[i]].id))
        THEN <<defs[i]>> ELSE <<>>)
       \o missingRequiredFrom(h, defs, args, i + 1)

missingRequiredArgs(h, b) == missingRequiredFrom(h, b.defs, b.args, 1)

\* finalChecks with the unexpected-arguments check made first
finalChecksUnexpectedFirst(h, b) ==
  IF b.maxArgs # -1 /\ Len(b.args) > b.maxArgs
  THEN [b EXCEPT !.pc = "thrown",
                 !.err = Thrown("UnexpectedArgsError", Undef, <<>>, <<>>,
                                SliceFrom(b.args, b.maxArgs))]
  ELSE IF missingRequiredArgs(h, b) # <<>>
  THEN [b EXCEPT !.pc = "thrown",
                 !.err = Thrown("RequiredArgsError", Undef, <<>>,
                                missingRequiredArgs(h, b), <<>>)]
  ELSE [b EXCEPT !.pc = "returned"]

\* lines 164-172: the two final checks and the return
finalChecks(h, b) ==
  IF missingRequiredArgs(h, b) # <<>>
  THEN [b EXCEPT !.pc = "thrown",
                 !.err = Thrown("RequiredArgsError", Undef, <<>>,
                                missingRequiredArgs(h, b), <<>>)]
  ELSE IF b.maxArgs # -1 /\ Len(b.args) > b.maxArgs
  THEN [b EXCEPT !.pc = "thrown",
                 !.err = Thrown("UnexpectedArgsError", Undef, <<>>, <<>>,
                                SliceFrom(b.args, b.maxArgs))]
  ELSE [b EXCEPT !.pc = "returned"]

\* ------------------------------------------------------------------ SpecBind
\* The binder is run on specs whose flags are consistent (rest implies not
\* required, as RestArg<T> has it); SpecDefs also covers the others.
InitBind ==
  /\ InitLists
  /\ NoBuilders
  /\ \A i \in 1..Len(heap) : ~(heap[i].required /\ heap[i].rest)
  /\ argv \in SeqsUpTo(Tokens, MaxTokens)
  /\ defsOutcome = "pending"
  /\ bind = NewBind(argDefs, argv)
  /\ NoCommands

Enter ==
  /\ bind.pc = "start"
  /\ heap' = enterHeap(heap, bind)
  /\ bind' = enter(heap', bind)
  /\ UNCHANGED <<argDefs, argv, defsOutcome, cmdVars, otherVars>>

BindToken ==
  /\ bind.pc = "tokens"
  /\ bind' = bindToken(heap, bind)
  /\ UNCHANGED <<heap, argDefs, argv, defsOutcome, cmdVars, otherVars>>

FillDefault ==
  /\ bind.pc = "defaults"
  /\ bind' = fillDefault(heap, bind)
  /\ UNCHANGED <<heap, argDefs, argv, defsOutcome, cmdVars, otherVars>>

FinalChecks ==
  /\ bind.pc = "checks"
  /\ bind' = finalChecks(heap, bind)
  /\ UNCHANGED <<heap, argDefs, argv, defsOutcome, cmdVars, otherVars>>

NextBind == Enter \/ BindToken \/ FillDefault \/ FinalChecks

SpecBind == InitBind /\ [][NextBind]_vars

BindTypeOK ==
  /\ bind.pc \in {"start", "tokens", "defaults", "checks", "returned", "thrown"}
  /\ (bind.pc = "thrown") <=> (bind.err.kind # "none")

\* ------------------------------------------------------------------ claims on validateArgs
Defs == Deref(heap, argDefs)
NumDefs == Len(argDefs)
NumTokens == Len(argv)
BindDone == bind.pc \in {"returned", "thrown"}

NumRequired == Cardinality({i \in 1..NumDefs : Defs[i].required})
NoRest == \A i \in 1..NumDefs : ~Defs[i].rest
RequiredThenOptional ==
  NoRest /\ \A i \in 1..NumDefs : \A j \in 1..NumDefs :
              (i < j /\ Defs[j].required) => Defs[i].required
EndsInRest ==
  /\ NumDefs >= 1
  /\ Defs[NumDefs].rest
  /\ validateArgDefs(Defs) = "ok"

\* the supplied token at position i (1-based) passes its spec's choices
\* check and is parsed without error
ChoiceOK(i) == Defs[i].choices # "none" => includes(ChoiceList, argv[i])
TokenValid(i) == ChoiceOK(i) /\ ~parseThrows(Defs[i], argv[i])
TokensValid == \A i \in 1..Min(NumTokens, NumDefs) : TokenValid(i)

\* ... and, where the spec is required, is parsed to a truthy value
TokensBind ==
  \A i \in 1..Min(NumTokens, NumDefs) :
    /\ TokenValid(i)
    /\ Defs[i].required => ~Falsy(parse(Defs[i], argv[i]))

DefaultOf(i) == IF Defs[i].default = "none" THEN Undef ELSE Defs[i].default
Expected(i) == IF i <= NumTokens THEN parse(Defs[i], argv[i]) ELSE DefaultOf(i)
BoundAsExpected ==
  /\ Len(bind.args) <= NumDefs
  /\ \A i \in 1..NumDefs : At(bind.args, i - 1) = Expected(i)

\* the last position (1-based) a default fills, 0 if none
LastFilled ==
  LET F == {i \in (NumTokens + 1)..NumDefs : DefaultOf(i) # Undef}
  IN IF F = {} THEN 0 ELSE CHOOSE i \in F : \A j \in F : j <= i

C4_Case == BindDone /\ RequiredThenOptional
           /\ NumRequired <= NumTokens /\ NumTokens <= NumDefs

\* C4 as stated: k required then m optional specs, no rest, k <= N <= k+m:
\* validateArgs succeeds and the bound sequence has the positions 0..k+m-1,
\* the unsupplied ones holding the default's value or nothing.  (Taken for
\* tokens that pass the choices check and the parser.)
C4_AlwaysSucceeds ==
  (C4_Case /\ TokensValid) => (bind.pc = "returned" /\ BoundAsExpected)

\* C4 where the presence test by truthiness (line 164) does not strike: the
\* same, for token lists whose supplied tokens are also parsed to a truthy
\* value where the spec is required; the array ends at the last supplied or
\* filled position.
C4_SucceedsWhenTokensBind ==
  (C4_Case /\ TokensBind) =>
    /\ bind.pc = "returned"
    /\ BoundAsExpected
    /\ Len(bind.args) = IF LastFilled > NumTokens THEN LastFilled ELSE NumTokens

C4_Witness ==
  /\ C4_Case /\ TokensBind
  /\ NumRequired >= 1
  /\ NumTokens < NumDefs
  /\ DefaultOf(NumDefs) = "d"
  /\ bind.pc = "returned"

\* the required specs at positions >= N, in definition order
RECURSIVE UnsuppliedRequiredFrom(_)
UnsuppliedRequiredFrom(i) ==
  IF i > NumDefs THEN <<>>
  ELSE (IF Defs[i].required THEN <<argDefs[i]>> ELSE <<>>) \o UnsuppliedRequiredFrom(i + 1)

NoDefaultFillsGap ==
  \A i \in (NumTokens + 1)..NumDefs : Defs[i].required => DefaultOf(i) = Undef

C5_Case == BindDone /\ NumTokens < NumRequired /\ NoDefaultFillsGap

\* C5 as stated: fewer than k tokens, no default filling the gap: a
\* RequiredArgsError listing exactly the required specs without a token.
\* (Taken for tokens that pass the choices check and the parser.)
C5_AlwaysRequiredArgsError ==
  (C5_Case /\ TokensValid) =>
    /\ bind.err.kind = "RequiredArgsError"
    /\ bind.err.specs = UnsuppliedRequiredFrom(NumTokens + 1)

\* C5 where the presence test by truthiness does not strike: the same, for
\* token lists whose supplied tokens are also parsed to a truthy value where
\* the spec is required.
C5_RequiredArgsErrorWhenTokensBind ==
  (C5_Case /\ TokensBind) =>
    /\ bind.pc = "thrown"
    /\ bind.err.kind = "RequiredArgsError"
    /\ bind.err.specs = UnsuppliedRequiredFrom(NumTokens + 1)

C5_Witness ==
  /\ C5_Case /\ TokensBind
  /\ NumTokens >= 1
  /\ bind.err.kind = "RequiredArgsError"
  /\ Len(bind.err.specs) = 1

C6_Case == BindDone /\ NoRest /\ NumTokens > NumDefs

\* C6 as stated: no rest spec, more tokens than specs: an
\* UnexpectedArgsError listing exactly the tokens at positions >= the number
\* of specs, the earlier positions left as bound.  (Taken for tokens that
\* pass the choices check and the parser.)
C6_AlwaysUnexpectedArgsError ==
  (C6_Case /\ TokensValid) =>
    /\ bind.err.kind = "UnexpectedArgsError"
    /\ bind.err.values = SliceFrom(argv, NumDefs)
    /\ \A i \in 1..NumDefs : At(bind.args, i - 1) = parse(Defs[i], argv[i])

\* C6 where the presence test by truthiness does not strike: the same, for
\* token lists whose tokens are also parsed to a truthy value where the spec
\* is required.
C6_UnexpectedArgsErrorWhenTokensBind ==
  (C6_Case /\ TokensBind) =>
    /\ bind.pc = "thrown"
    /\ bind.err.kind = "UnexpectedArgsError"
    /\ bind.err.values = SliceFrom(argv, NumDefs)
    /\ \A i \in 1..NumDefs : At(bind.args, i - 1) = parse(Defs[i], argv[i])

C6_Witness ==
  /\ C6_Case /\ TokensBind
  /\ NumDefs >= 1
  /\ Defs[1].parse = "int"
  /\ bind.err.kind = "UnexpectedArgsError"
  /\ Len(bind.err.values) >= 2

\* the tokens the rest slot, the last spec, takes
RestTokens == IF NumTokens > NumDefs - 1 THEN NumTokens - (NumDefs - 1) ELSE 0
NonRestWithValue ==
  Cardinality({i \in 1..(NumDefs - 1) : At(bind.args, i - 1) # Undef})

C7_Case == BindDone /\ EndsInRest

\* C7 as stated, its first half: a validated list ending in a rest spec never
\* fails with an unexpected-arguments error and accepts every token list at
\* least as long as the number of required specs.  (Taken for tokens that
\* pass the choices check and the parser.)
C7_AcceptsAnyLength ==
  (C7_Case /\ TokensValid) =>
    /\ bind.err.kind # "UnexpectedArgsError"
    /\ NumTokens >= NumRequired => bind.pc = "returned"

\* C7 as stated, its second half: the bound sequence has as many positions
\* as non-rest specs with a value plus tokens taken by the rest slot.  A
\* default filling the rest slot, or a hole before a filled position, makes
\* it longer.
C7_LengthAsStated ==
  (C7_Case /\ bind.pc = "returned") => Len(bind.args) = NonRestWithValue + RestTokens

\* C7 where the presence test by truthiness does not strike: never an
\* unexpected-arguments error; accepted when the supplied tokens are also
\* truthy where required; the length is the number of tokens, or the last
\* position a default fills when that is further, which is the number of
\* non-rest specs plus the rest slot's tokens once the rest slot has a token.
C7_AcceptsWhenTokensBind ==
  C7_Case =>
    /\ bind.err.kind # "UnexpectedArgsError"
    /\ (NumTokens >= NumRequired /\ TokensBind) => bind.pc = "returned"
    /\ bind.pc = "returned" =>
         /\ Len(bind.args) = IF LastFilled > NumTokens THEN LastFilled ELSE NumTokens
         /\ NumTokens >= NumDefs =>
              Len(bind.args) = (NumDefs - 1) + RestTokens

C7_Witness ==
  /\ C7_Case
  /\ NumDefs = 2
  /\ NumTokens = 3
  /\ Defs[1].required
  /\ bind.pc = "returned"

\* The supplied positions in order: the first one whose token fails the
\* choices check or whose parse throws, 0 if none
FirstFailing ==
  LET B == {i \in 1..Min(NumTokens, NumDefs) :
              ~ChoiceOK(i) \/ parseThrows(Defs[i], argv[i])}
  IN IF B = {} THEN 0 ELSE CHOOSE i \in B : \A j \in B : i <= j

\* positions the first loop has gone through without throwing
Passed ==
  IF bind.pc \in {"start", "idle"} THEN 0
  ELSE IF bind.pc = "thrown" /\ bind.err.kind \in {"Error", "ParseError"}
       THEN FirstFailing - 1
  ELSE Min(NumTokens, NumDefs) - Len(bind.todo)

\* C8: the binder reaching a supplied spec with choices throws the
\* invalid-choice error, naming the raw token and the choices, exactly when
\* the raw token is not among the choices, without calling parse on it; a
\* member is parsed and its value stored at the position.
C8_ChoicesOnRawToken ==
  /\ bind.pc \in {"tokens", "defaults", "checks", "returned", "thrown"} =>
       /\ \A i \in 1..Passed :
            /\ ChoiceOK(i)
            /\ bind.parsed[i] = <<i - 1, argv[i]>>
            /\ At(bind.args, i - 1) = parse(Defs[i], argv[i])
       /\ Len(bind.parsed) <= Passed + 1
  /\ BindDone =>
       /\ (bind.err.kind = "Error") <=> (FirstFailing # 0 /\ ~ChoiceOK(FirstFailing))
       /\ bind.err.kind = "Error" =>
            /\ bind.err.input = argv[FirstFailing]
            /\ bind.err.choices = ChoiceList
            /\ Len(bind.parsed) = FirstFailing - 1
       /\ bind.err.kind = "ParseError" =>
            /\ ChoiceOK(FirstFailing)
            /\ Len(bind.parsed) = FirstFailing

C8_Witness ==
  /\ bind.pc = "thrown"
  /\ bind.err.kind = "Error"
  /\ FirstFailing = 2
  /\ Defs[1].choices = "fn"
  /\ Defs[2].choices = "list"

\* ------------------------------------------------------------------ C14
\* the specs beyond the supplied tokens that have a default supplier
RECURSIVE WithDefaultFrom(_)
WithDefaultFrom(i) ==
  IF i > NumDefs THEN <<>>
  ELSE (IF Defs[i].default # "none" THEN <<argDefs[i]>> ELSE <<>>) \o WithDefaultFrom(i + 1)

NumSupplied == Min(NumDefs, NumTokens)
TooManyTokens == bind.maxArgs # -1 /\ NumTokens > bind.maxArgs
PastTokens == bind.pc \in {"defaults", "checks", "returned"}
                \/ (bind.pc = "thrown" /\ bind.err.kind \in {"RequiredArgsError", "UnexpectedArgsError"})
PastDefaults == bind.pc \in {"checks", "returned"}
                \/ (bind.pc = "thrown" /\ bind.err.kind \in {"RequiredArgsError", "UnexpectedArgsError"})

\* C14: validateArgs checks in a fixed order: choices then parse for each
\* supplied token in positional order, then the default suppliers of the
\* unsupplied specs in positional order, then the required-arguments check,
\* then the unexpected-arguments check.  A failing choice check or parse
\* leaves every default supplier uninvoked, and a bind with an unsatisfied
\* required spec and too many tokens fails with the RequiredArgsError.
C14_FixedOrderOfChecks ==
  bind.pc # "start" =>
    \* the parse calls made are those of positions 0, 1, ... on the raw tokens
    /\ Len(bind.parsed) <= NumSupplied
    /\ \A k \in 1..Len(bind.parsed) : bind.parsed[k] = <<k - 1, argv[k]>>
    \* a failing choice check stops before that token's parse, a failing parse at it
    /\ (bind.pc = "thrown" /\ bind.err.kind = "Error") =>
         (Len(bind.parsed) < NumSupplied /\ bind.err.input = argv[Len(bind.parsed) + 1])
    /\ (bind.pc = "thrown" /\ bind.err.kind = "ParseError") =>
         (bind.parsed # <<>> /\ bind.err.input = argv[Len(bind.parsed)])
    \* no default supplier before the last token is bound, none after a failure
    /\ ~PastTokens => bind.supplied = <<>>
    /\ PastTokens => Len(bind.parsed) = NumSupplied
    \* the suppliers invoked are a prefix of those of the unsupplied specs, in order
    /\ \E n \in 0..Len(WithDefaultFrom(NumTokens + 1)) :
         bind.supplied = SubSeq(WithDefaultFrom(NumTokens + 1), 1, n)
    /\ PastDefaults => bind.supplied = WithDefaultFrom(NumTokens + 1)
    \* the required check precedes the unexpected check
    /\ (bind.pc = "thrown" /\ bind.err.kind = "UnexpectedArgsError") =>
         missingRequiredArgs(heap, bind) = <<>>
    /\ (BindDone /\ PastDefaults /\ missingRequiredArgs(heap, bind) # <<>> /\ TooManyTokens) =>
         (bind.pc = "thrown" /\ bind.err.kind = "RequiredArgsError")
    /\ (bind.pc = "returned") => (missingRequiredArgs(heap, bind) = <<>> /\ ~TooManyTokens)

\* a required spec left unsatisfied and one token too many
C14_Witness ==
  /\ bind.pc = "thrown"
  /\ bind.err.kind = "RequiredArgsError"
  /\ TooManyTokens
  /\ NumDefs = 2
  /\ NumTokens = 3

\* ------------------------------------------------------------------ C15
\* the value bound at position i (1-based), undefined if the position is absent
BoundAt(i) == At(bind.args, i - 1)

\* the required specs whose position is absent or holds a falsy value
RECURSIVE RequiredFalsyFrom(_)
RequiredFalsyFrom(i) ==
  IF i > NumDefs THEN <<>>
  ELSE (IF Defs[i].required /\ Falsy(BoundAt(i)) THEN <<argDefs[i]>> ELSE <<>>)
       \o RequiredFalsyFrom(i + 1)

\* C15: presence of a required argument is tested by truthiness: once tokens
\* and defaults are bound, validateArgs throws a RequiredArgsError listing
\* exactly the required specs whose position is absent or holds a falsy
\* value, so a required spec whose token parsed to 0 is reported as missing.
C15_RequiredTestedByTruthiness ==
  (BindDone /\ PastDefaults) =>
    /\ (bind.err.kind = "RequiredArgsError") <=> (RequiredFalsyFrom(1) # <<>>)
    /\ bind.err.kind = "RequiredArgsError" => bind.err.specs = RequiredFalsyFrom(1)
    /\ \A i \in 1..NumDefs :
         (Defs[i].required /\ i <= NumTokens /\ BoundAt(i) = "#0") =>
           (bind.err.kind = "RequiredArgsError"
            /\ \E k \in 1..Len(bind.err.specs) : bind.err.specs[k] = argDefs[i])

\* a token was supplied, parsed to 0, and its spec is the one reported
C15_Witness ==
  /\ bind.pc = "thrown"
  /\ bind.err.kind = "RequiredArgsError"
  /\ NumDefs = 2
  /\ NumTokens = 2
  /\ bind.args = <<"a", "#0">>
  /\ bind.err.specs = <<argDefs[2]>>

\* ------------------------------------------------------------------ C16
\* the position (1-based) of the spec a reference names
PositionOf(ref) == CHOOSE i \in 1..NumDefs : argDefs[i] = ref

\* a default supplier is invoked only for a spec beyond the supplied tokens,
\* at most once, and leaves the values bound from tokens alone; a supplier
\* resolving to undefined leaves its position empty, any other leaves its
\* value there
C16_SuppliersFillOnlyGaps ==
  bind.pc # "start" =>
    /\ \A k \in 1..Len(bind.supplied) :
         /\ PositionOf(bind.supplied[k]) > NumTokens
         /\ \A j \in 1..Len(bind.supplied) : bind.supplied[j] = bind.supplied[k] => j = k
    /\ PastTokens => \A i \in 1..NumSupplied : BoundAt(i) = parse(Defs[i], argv[i])
    /\ PastDefaults => \A i \in (NumTokens + 1)..NumDefs : BoundAt(i) = DefaultOf(i)

\* a required spec without a token whose default resolves to a value
DefaultedRequired(i) ==
  /\ i > NumTokens
  /\ Defs[i].required
  /\ DefaultOf(i) # Undef

\* C16: a default supplier is invoked only for a spec at or beyond the
\* number of supplied tokens, at most once per bind, never replaces a value
\* bound from a token; resolving to undefined it leaves the position empty,
\* otherwise the position holds the resolved value; and a required spec
\* with no token whose default resolves to a value is satisfied.
C16_DefaultSatisfiesRequired ==
  /\ C16_SuppliersFillOnlyGaps
  /\ (BindDone /\ PastDefaults) =>
       \A i \in 1..NumDefs : DefaultedRequired(i) =>
         \A k \in 1..Len(bind.err.specs) : bind.err.specs[k] # argDefs[i]

\* what holds of the last sentence: the spec is satisfied when the value is truthy
C16_TruthyDefaultSatisfiesRequired ==
  (BindDone /\ PastDefaults) =>
    \A i \in 1..NumDefs : (DefaultedRequired(i) /\ ~Falsy(DefaultOf(i))) =>
      \A k \in 1..Len(bind.err.specs) : bind.err.specs[k] # argDefs[i]

\* ------------------------------------------------------------------ C19
\* the rest spec of a rest-terminated list
RestSpec == Defs[NumDefs]

\* the token is one the rest spec admits: in its choices, accepted by its parser
RestAdmits(token) ==
  /\ RestSpec.choices # "none" => includes(ChoiceList, token)
  /\ ~parseThrows(RestSpec, token)

\* C19: after a successful bind against a rest-terminated list every token
\* from the rest spec's index to the end of the tokens has passed the rest
\* spec's choices and is replaced by the rest spec's parse of it.
C19_RestTokensConverted ==
  (bind.pc = "returned" /\ EndsInRest) =>
    \A i \in NumDefs..NumTokens :
      /\ RestAdmits(argv[i])
      /\ BoundAt(i) = parse(RestSpec, argv[i])

\* what holds: the token at the rest spec's own index is checked and
\* converted, every later token is left as it was given
C19_OnlyFirstRestTokenConverted ==
  (bind.pc = "returned" /\ EndsInRest) =>
    /\ NumTokens >= NumDefs =>
         (RestAdmits(argv[NumDefs]) /\ BoundAt(NumDefs) = parse(RestSpec, argv[NumDefs]))
    /\ \A i \in (NumDefs + 1)..NumTokens : BoundAt(i) = argv[i]

\* ------------------------------------------------------------------ validateArgs, run to its end
step(h, b) ==
  CASE b.pc = "tokens" -> bindToken(h, b)
    [] b.pc = "defaults" -> fillDefault(h, b)
    [] b.pc = "checks" -> finalChecks(h, b)
    [] OTHER -> b

RECURSIVE runBind(_, _)
runBind(h, b) == IF b.pc \in {"returned", "thrown"} THEN b ELSE runBind(h, step(h, b))

validateArgs(h, defs, args) ==
  LET b0 == NewBind(defs, args)
      h1 == enterHeap(h, b0)
  IN [heap |-> h1, bind |-> runBind(h1, enter(h1, b0))]

\* ------------------------------------------------------------------ Command
\* The Arg objects the commands of Spec are built from, and their lists:
\* none, one required, one optional, and optional-then-required (malformed).
CmdHeap ==
  << [id |-> UnsetId, required |-> TRUE, rest |-> FALSE,
      choices |-> "none", parse |-> "identity", default |-> "none"],
     [id |-> UnsetId, required |-> FALSE, rest |-> FALSE,
      choices |-> "none", parse |-> "identity", default |-> "d"] >>

CmdArgLists == {<<>>, <<1>>, <<2>>, <<2, 1>>}

\* run handlers: returning a literal, returning a promise of it, throwing
Handlers == {"literal", "deferred", "throws"}
HandlerValue == "123"

\* subcommands: absent, {} or {sub: <command 1>}
Options ==
  [args : CmdArgLists, run : Handlers \cup {"none"},
   subcommands : {"none", "empty", "child"}]

CmdIds == {1, 2}
SubName == "sub"
VersionFlag == "--version"
BadFlag == "--bad"
ExecTokens == {"a", SubName, VersionFlag, BadFlag}

Unbuilt == [state |-> "unbuilt", options |-> [args |-> <<>>, run |-> "none", subcommands |-> "none"],
            err |-> "none"]

BothError == "command may have subcommands OR a run function but not both."
NeitherError == "command must have subcommands OR a run function"
NotIterable == "TypeError: defs is not iterable"

\* lines 40-43
runOrSubcommandsCheck(o) ==
  IF o.subcommands # "none" /\ o.run # "none" THEN BothError
  ELSE IF o.subcommands = "none" /\ o.run = "none" THEN NeitherError
  ELSE "ok"

\* line 15 hands validateArgDefs the options object, not options.args.  The
\* loop of args.ts line 116 then runs over a plain object: compiled to an
\* iterator protocol loop it throws a TypeError, compiled to an indexed loop
\* (i < defs.length, with length undefined) it runs zero times.
validateArgDefsOfOptions(build, o) ==
  IF build = "iterator" THEN NotIterable ELSE validateArgDefs(<<>>)

\* lines 8-16
constructor(build, o) ==
  IF runOrSubcommandsCheck(o) # "ok"
  THEN [state |-> "failed", options |-> o, err |-> runOrSubcommandsCheck(o)]
  ELSE IF validateArgDefsOfOptions(build, o) # "ok"
  THEN [state |-> "failed", options |-> o, err |-> validateArgDefsOfOptions(build, o)]
  ELSE [state |-> "constructed", options |-> o, err |-> "none"]

\* What the flag collaborator raises on the tokens: the version signal for
\* the version flag, its own error for a flag it does not know, whichever
\* comes first in the tokens.
flagSignal(tokens) ==
  LET flags == {j \in 1..Len(tokens) : tokens[j] \in {VersionFlag, BadFlag}} IN
    IF flags = {} THEN NoError
    ELSE LET j == CHOOSE j \in flags : \A k \in flags : j <= k IN
           IF tokens[j] = VersionFlag
           THEN Thrown("VersionSignal", Undef, <<>>, <<>>, <<>>)
           ELSE Thrown("FlagError", tokens[j], <<>>, <<>>, <<>>)

\* parse(options, argv) of ./parse: the flag collaborator, the choice of a
\* subcommand and the binding of the positional tokens.
parseOptions(h, o, tokens) ==
  IF flagSignal(tokens) # NoError
  THEN [heap |-> h, err |-> flagSignal(tokens),
        args |-> <<>>, flags |-> "none", sub |-> 0, bound |-> FALSE]
  ELSE
    LET selects == o.subcommands = "child" /\ tokens # <<>> /\ Head(tokens) = SubName
        r == validateArgs(h, o.args, IF selects THEN <<>> ELSE tokens)
    IN [heap |-> r.heap, err |-> r.bind.err,
        args |-> IF r.bind.pc = "thrown" THEN <<>>
                 ELSE IF selects THEN Tail(tokens) ELSE r.bind.args,
        flags |-> "{}",
        sub |-> IF selects /\ r.bind.pc # "thrown" THEN 1 ELSE 0,
        bound |-> TRUE]

NoCall == [made |-> FALSE, args |-> <<>>, flags |-> "none", ctx |-> 0]

\* One call of exec.
\*   pc      "parse", "parsed", "awaitChild", "awaitRun" or "done"
\*   args, flags, sub   what parse returned
\*   bound   whether parse has run validateArgs on the command's list
\*   ctx     the Context built, 0 before
\*   child   the frame of the subcommand's exec, 0 if none
\*   call    what the run handler was invoked with
NewFrame(c, tokens) ==
  [cmd |-> c, argv |-> tokens, pc |-> "parse", args |-> <<>>, flags |-> "none",
   sub |-> 0, bound |-> FALSE, ctx |-> 0, child |-> 0, call |-> NoCall,
   status |-> "pending", value |-> Undef, err |-> NoError]

resolve(f, v) == [f EXCEPT !.pc = "done", !.status = "resolved", !.value = v]

\* catch with every error swallowed
catchSwallowsAll(f, err) == resolve(f, Undef)

\* lines 31-37: the catch clause
catch(f, err) ==
  IF err.kind = "VersionSignal" THEN resolve(f, Undef)
  ELSE [f EXCEPT !.pc = "done", !.status = "rejected", !.err = err]

logged(out, err) == IF err.kind = "VersionSignal" THEN Append(out, "version") ELSE out

\* line 21, when parse has settled
parsed(f, r) ==
  IF r.err.kind # "none" THEN [catch(f, r.err) EXCEPT !.bound = r.bound]
  ELSE [f EXCEPT !.pc = "parsed", !.args = r.args, !.flags = r.flags, !.sub = r.sub,
                 !.bound = r.bound]

newContext(fs) == Cardinality({j \in 1..Len(fs) : fs[j].ctx # 0}) + 1

\* lines 22-30, up to the next await
afterParse(fs, i, o) ==
  LET f == fs[i]
      ctx == newContext(fs)
  IN
    IF f.sub # 0
    THEN Append([fs EXCEPT ![i] = [f EXCEPT !.pc = "awaitChild", !.ctx = ctx,
                                            !.child = Len(fs) + 1]],
                NewFrame(f.sub, f.args))
    ELSE IF o.run # "none"
    THEN [fs EXCEPT ![i] = [f EXCEPT !.pc = "awaitRun", !.ctx = ctx,
                                     !.call = [made |-> TRUE, args |-> f.args,
                                               flags |-> f.flags, ctx |-> ctx]]]
    ELSE [fs EXCEPT ![i] = [resolve(f, Undef) EXCEPT !.ctx = ctx]]

\* runSettled without the return of the result
runSettledDropsResult(f, run) ==
  IF run = "throws" THEN catch(f, Thrown("HandlerError", Undef, <<>>, <<>>, <<>>))
  ELSE resolve(f, Undef)

\* lines 28-29, when the handler's result has settled
runSettled(f, run) ==
  IF run = "throws" THEN catch(f, Thrown("HandlerError", Undef, <<>>, <<>>, <<>>))
  ELSE resolve(f, HandlerValue)

\* childSettled with the subcommand's failure swallowed
childSettledSwallows(f, child) == resolve(f, child.value)

\* lines 24-25, when the subcommand's exec has settled
childSettled(f, child) ==
  IF child.status = "rejected" THEN catch(f, child.err)
  ELSE resolve(f, child.value)

\* ------------------------------------------------------------------ Spec
Init ==
  /\ heap = CmdHeap
  /\ argDefs = <<>>
  /\ argv = <<>>
  /\ defsOutcome = "pending"
  /\ bind = NoBind
  /\ forOf \in {"iterator", "indexed"}
  /\ cmds = [c \in CmdIds |-> Unbuilt]
  /\ frames = <<>>
  /\ stdout = <<>>
  /\ NoBuilders

Idle == \A i \in 1..Len(frames) : frames[i].pc = "done"

\* new Command(options), before any exec has stamped an id; only command 2
\* can name command 1 as subcommand
Construct(c, o) ==
  /\ cmds[c].state = "unbuilt"
  /\ frames = <<>>
  /\ heap = CmdHeap
  /\ o.subcommands = "child" => (c = 2 /\ cmds[1].state = "constructed")
  /\ cmds' = [cmds EXCEPT ![c] = constructor(forOf, o)]
  /\ UNCHANGED <<heap, argDefs, argv, defsOutcome, bind, forOf, frames, stdout, otherVars>>

\* a top-level command.exec(tokens)
Exec(c, tokens) ==
  /\ cmds[c].state = "constructed"
  /\ frames = <<>>
  /\ frames' = <<NewFrame(c, tokens)>>
  /\ stdout' = <<>>
  /\ UNCHANGED <<heap, argDefs, argv, defsOutcome, bind, forOf, cmds, otherVars>>

\* the caller has received the settlement of the top-level exec; the frames
\* and the output of the invocation are dropped
Settled ==
  /\ frames # <<>>
  /\ Idle
  /\ frames' = <<>>
  /\ stdout' = <<>>
  /\ UNCHANGED <<heap, argDefs, argv, defsOutcome, bind, forOf, cmds, otherVars>>

Parse(i) ==
  /\ frames[i].pc = "parse"
  /\ LET r == parseOptions(heap, cmds[frames[i].cmd].options, frames[i].argv) IN
       /\ heap' = r.heap
       /\ frames' = [frames EXCEPT ![i] = parsed(@, r)]
       /\ stdout' = logged(stdout, r.err)
  /\ UNCHANGED <<argDefs, argv, defsOutcome, bind, forOf, cmds, otherVars>>

AfterParse(i) ==
  /\ frames[i].pc = "parsed"
  /\ frames' = afterParse(frames, i, cmds[frames[i].cmd].options)
  /\ UNCHANGED <<heap, argDefs, argv, defsOutcome, bind, forOf, cmds, stdout, otherVars>>

RunSettles(i) ==
  /\ frames[i].pc = "awaitRun"
  /\ frames' = [frames EXCEPT ![i] = runSettled(@, cmds[frames[i].cmd].options.run)]
  /\ stdout' = stdout
  /\ UNCHANGED <<heap, argDefs, argv, defsOutcome, bind, forOf, cmds, otherVars>>

ChildSettles(i) ==
  /\ frames[i].pc = "awaitChild"
  /\ frames[frames[i].child].pc = "done"
  /\ frames' = [frames EXCEPT ![i] = childSettled(@, frames[frames[i].child])]
  /\ stdout' = logged(stdout, IF frames[frames[i].child].status = "rejected"
                              THEN frames[frames[i].child].err ELSE NoError)
  /\ UNCHANGED <<heap, argDefs, argv, defsOutcome, bind, forOf, cmds, otherVars>>

Next ==
  \/ \E c \in CmdIds : \E o \in Options : Construct(c, o)
  \/ \E c \in CmdIds : \E tokens \in SeqsUpTo(ExecTokens, MaxArgv) : Exec(c, tokens)
  \/ Settled
  \/ \E i \in 1..Len(frames) : Parse(i)
  \/ \E i \in 1..Len(frames) : AfterParse(i)
  \/ \E i \in 1..Len(frames) : RunSettles(i)
  \/ \E i \in 1..Len(frames) : ChildSettles(i)

Spec == Init /\ [][Next]_vars

CmdTypeOK ==
  /\ Len(frames) <= 2
  /\ \A i \in 1..Len(frames) : frames[i].pc \in {"parse", "parsed", "awaitChild", "awaitRun", "done"}

\* ------------------------------------------------------------------ claims on Command
OptionsOf(i) == cmds[frames[i].cmd].options
ListOf(o) == Deref(heap, o.args)
LegalList(o) == validateArgDefs(ListOf(o)) = "ok"
HasBoth(o) == o.run # "none" /\ o.subcommands # "none"
HasNeither(o) == o.run = "none" /\ o.subcommands = "none"

\* C2: construction fails with both a run handler and subcommands, and with
\* neither; with exactly one of them and a legal argument list it succeeds.
C2_ConstructionOutcome ==
  \A c \in CmdIds : cmds[c].state # "unbuilt" =>
    LET o == cmds[c].options IN
      /\ (HasBoth(o) \/ HasNeither(o)) => cmds[c].state = "failed"
      /\ (~HasBoth(o) /\ ~HasNeither(o) /\ LegalList(o)) => cmds[c].state = "constructed"

\* C3: no exec binds tokens against an argument list that violates the
\* required/optional/rest ordering, as no Command with such a list can be
\* constructed.
C3_NoBindOnMalformedList ==
  \A i \in 1..Len(frames) : frames[i].bound => LegalList(OptionsOf(i))

RanHandler(i) ==
  /\ OptionsOf(i).run # "none"
  /\ frames[i].pc \in {"awaitRun", "done"}
  /\ parseOptions(heap, OptionsOf(i), frames[i].argv).err.kind = "none"
  /\ frames[i].sub = 0

NoRequiredArgs(o) == \A j \in 1..Len(o.args) : ~heap[o.args[j]].required

\* C9: when parse succeeds and selects no subcommand, exec of a command with
\* a run handler invokes it with the bound args, the flags and the context,
\* and resolves to the value it returns; exec([]) with no required argument
\* and a handler returning a literal resolves to the literal.
C9_ResolvesToHandlerValue ==
  \A i \in 1..Len(frames) :
    /\ RanHandler(i) =>
         /\ frames[i].ctx # 0
         /\ frames[i].call =
              [made |-> TRUE,
               args |-> parseOptions(heap, OptionsOf(i), frames[i].argv).args,
               flags |-> parseOptions(heap, OptionsOf(i), frames[i].argv).flags,
               ctx |-> frames[i].ctx]
         /\ (frames[i].pc = "done" /\ OptionsOf(i).run \in {"literal", "deferred"}) =>
              (frames[i].status = "resolved" /\ frames[i].value = HandlerValue)
    /\ (frames[i].pc = "done" /\ frames[i].argv = <<>>
        /\ OptionsOf(i).run = "literal" /\ NoRequiredArgs(OptionsOf(i))) =>
         (frames[i].status = "resolved" /\ frames[i].value = HandlerValue)

C9_Witness ==
  \E i \in 1..Len(frames) :
    /\ RanHandler(i)
    /\ frames[i].pc = "done"
    /\ frames[i].argv = <<>>
    /\ OptionsOf(i).run = "literal"
    /\ frames[i].call.args = <<"d">>
    /\ frames[i].value = HandlerValue

\* what follows the subcommand's name in the tokens
Remaining(tokens) == Tail(tokens)

\* C10: a parent whose parse selects a subcommand invokes that subcommand's
\* exec once, with the remaining tokens, settles only after it, and with the
\* same value or the same error.
C10_DelegatesToSubcommand ==
  \A i \in 1..Len(frames) : frames[i].sub # 0 =>
    LET f == frames[i] IN
      /\ f.pc = "parsed" => Len(frames) = i
      /\ f.pc \in {"awaitChild", "done"} =>
           /\ f.child \in 1..Len(frames)
           /\ frames[f.child].cmd = f.sub
           /\ frames[f.child].argv = Remaining(f.argv)
           /\ Cardinality({j \in 1..Len(frames) : j # i /\ frames[j].cmd = f.sub}) = 1
      /\ f.pc = "done" =>
           /\ frames[f.child].pc = "done"
           /\ f.status = frames[f.child].status
           /\ f.value = frames[f.child].value
           /\ f.err = frames[f.child].err

C10_Witness ==
  \E i \in 1..Len(frames) :
    /\ frames[i].sub # 0
    /\ frames[i].pc = "done"
    /\ frames[i].argv = <<SubName, "a">>
    /\ frames[i].status = "rejected"
    /\ frames[i].err.kind = "UnexpectedArgsError"

\* ------------------------------------------------------------------ C11
\* what the steps of exec i have raised, by origin
ParseError(i) == parseOptions(heap, OptionsOf(i), frames[i].argv).err
ChildFailed(i) ==
  /\ frames[i].child # 0
  /\ frames[frames[i].child].status = "rejected"
HandlerThrew(i) ==
  /\ frames[i].call.made
  /\ frames[i].pc = "done"
  /\ OptionsOf(i).run = "throws"

VersionRequested(i) == ParseError(i).kind = "VersionSignal"

\* C11: a version signal raised by flag parsing is caught in exec, its
\* rendering is written to standard output and exec resolves with no value;
\* nothing else is swallowed: an error of any other kind raised by flag
\* parsing, by binding, by the subcommand's exec or by the handler is the
\* error exec rejects with, unchanged, and nothing is written.
C11_OnlyVersionSignalSwallowed ==
  \A i \in 1..Len(frames) : frames[i].pc = "done" =>
    LET f == frames[i] IN
      /\ VersionRequested(i) =>
           (f.status = "resolved" /\ f.value = Undef /\ stdout = <<"version">>)
      /\ ParseError(i).kind \notin {"none", "VersionSignal"} =>
           (f.status = "rejected" /\ f.err = ParseError(i))
      /\ ChildFailed(i) =>
           (f.status = "rejected" /\ f.err = frames[f.child].err)
      /\ HandlerThrew(i) =>
           (f.status = "rejected" /\ f.err.kind = "HandlerError")
      /\ f.status = "rejected" =>
           (ParseError(i).kind \notin {"none", "VersionSignal"}
            \/ ChildFailed(i) \/ HandlerThrew(i))
      /\ (stdout # <<>>) => \E j \in 1..Len(frames) : VersionRequested(j)

\* the version flag after a positional token: rendered, resolved, no value
C11_Witness ==
  /\ Len(frames) = 1
  /\ frames[1].pc = "done"
  /\ frames[1].argv = <<"a", VersionFlag>>
  /\ frames[1].status = "resolved"
  /\ stdout = <<"version">>

\* ------------------------------------------------------------------ C13
\* how exec i ended
Outcomes(i) ==
  LET f == frames[i] IN
    (IF f.status = "resolved" /\ f.call.made THEN {"ran-handler"} ELSE {})
    \cup (IF f.status = "resolved" /\ f.child # 0 THEN {"dispatched-to-subcommand"} ELSE {})
    \cup (IF f.status = "rejected" THEN {"failed"} ELSE {})
    \cup (IF VersionRequested(i) THEN {"version-rendered"} ELSE {})

BindErrors == {"Error", "ParseError", "RequiredArgsError", "UnexpectedArgsError"}

\* the handler is invoked only from a successful parse that selected no
\* subcommand, and a binding failure is the failure of the invocation
C13_HandlerOnlyAfterBind ==
  \A i \in 1..Len(frames) :
    LET f == frames[i] IN
      /\ f.call.made =>
           /\ f.pc \in {"awaitRun", "done"}
           /\ f.bound
           /\ ParseError(i).kind = "none"
           /\ f.sub = 0 /\ f.child = 0
      /\ (f.pc = "done" /\ ParseError(i).kind \in BindErrors) =>
           (f.status = "rejected" /\ f.err = ParseError(i) /\ ~f.call.made)

\* C13: every exec ends in exactly one of: the handler ran, the call was
\* dispatched to one subcommand, the invocation failed, the version signal
\* was rendered; the handler is invoked at most once, only after flag parsing
\* and binding succeeded, never when binding failed or a subcommand was
\* selected, and a binding failure is the invocation's failure.
C13_EndsInOneOutcome ==
  /\ C13_HandlerOnlyAfterBind
  /\ \A i \in 1..Len(frames) : frames[i].pc = "done" => Cardinality(Outcomes(i)) = 1

\* every exec ends in at most one of the four, and in none of them exactly
\* when parse selected no subcommand and the command has no handler
C13_NoOutcomeIffNothingToRun ==
  \A i \in 1..Len(frames) : frames[i].pc = "done" =>
    /\ Cardinality(Outcomes(i)) <= 1
    /\ (Outcomes(i) = {}) <=>
         (ParseError(i).kind = "none" /\ frames[i].sub = 0 /\ OptionsOf(i).run = "none")

\* ------------------------------------------------------------------ argBuilder
\* A JavaScript object literal of the builder: the set of its own keys and
\* the value of each (a key that is not present holds the value of NoKeys).
\*   parse    "identity" (s => s), "int" (a user parser)
\*   default  "value:d" (a bare value), "supplier:d" (a function)
MaxBuilders == 2

NoKeys ==
  [keys |-> {}, name |-> Undef, description |-> Undef, parse |-> "none",
   default |-> "none", required |-> FALSE, rest |-> FALSE, id |-> 0]

\* {...a, k: v}
put(a, k, v) == [[a EXCEPT ![k] = v] EXCEPT !.keys = @ \cup {k}]

\* {...a, ...b}
spread(a, b) ==
  [k \in DOMAIN a |->
     IF k = "keys" THEN a.keys \cup b.keys
     ELSE IF k \in b.keys THEN b[k] ELSE a[k]]

\* the options bags handed to the builder: the keys of ArgOpts, and keys
\* that ArgOpts does not declare but an object may carry
OptionBags ==
  { NoKeys,
    put(NoKeys, "parse", "int"),
    put(NoKeys, "default", "value:d"),
    put(NoKeys, "description", "about"),
    put(NoKeys, "required", FALSE),
    put(NoKeys, "required", TRUE),
    put(NoKeys, "rest", TRUE),
    put(put(NoKeys, "id", 5), "name", "x") }

\* a parameter of a call: undefined, a string or an object
NoParam == [type |-> "undefined", str |-> Undef, obj |-> NoKeys]
Str(s) == [type |-> "string", str |-> s, obj |-> NoKeys]
Obj(o) == [type |-> "object", str |-> Undef, obj |-> o]

\* the call shapes: (), (name), (name, description),
\* (name, description, options), (name, options), (options)
CallShapes ==
  { <<NoParam, NoParam, NoParam>>,
    <<Str("n"), NoParam, NoParam>>,
    <<Str("n"), Str("about"), NoParam>> }
  \cup { <<Str("n"), Str("about"), Obj(o)>> : o \in OptionBags }
  \cup { <<Str("n"), Obj(o), NoParam>> : o \in OptionBags }
  \cup { <<Obj(o), NoParam, NoParam>> : o \in OptionBags }

\* lines 54-58; the result is <<name, description, options>>
getParams(name, description, options) ==
  IF name.type = "object" THEN <<NoParam, NoParam, name>>
  ELSE IF description.type = "object" THEN <<name, NoParam, description>>
  ELSE <<name, description, IF options.type = "undefined" THEN Obj(NoKeys) ELSE options>>

\* the default value of the parameter: options = {}
orEmpty(options) == IF options.type = "undefined" THEN Obj(NoKeys) ELSE options

\* lines 82-85: a default that is not a function is wrapped in a supplier
wrapDefault(a) ==
  IF "default" \in a.keys /\ a.default = "value:d"
  THEN [a EXCEPT !.default = "supplier:d"]
  ELSE a

\* lines 61-87: the bare builder
arg(defaultOptions, name, description, options) ==
  LET ps == getParams(name, description, orEmpty(options)) IN
    wrapDefault(
      put(put(spread(put(put(spread(NoKeys, defaultOptions),
                             "required", TRUE),
                         "description", ps[2].str),
                     ps[3].obj),
              "name", ps[1].str),
          "id", UnsetId))

\* lines 89-92
argRequired(defaultOptions, name, description, options) ==
  LET ps == getParams(name, description, orEmpty(options)) IN
    arg(defaultOptions, ps[1],
        Obj(put(spread(put(spread(NoKeys, defaultOptions), "description", ps[2].str),
                       ps[3].obj),
                "required", TRUE)),
        NoParam)

\* lines 93-96
argOptional(defaultOptions, name, description, options) ==
  LET ps == getParams(name, description, orEmpty(options)) IN
    arg(defaultOptions, ps[1],
        Obj(put(spread(put(spread(NoKeys, defaultOptions), "description", ps[2].str),
                       ps[3].obj),
                "required", FALSE)),
        NoParam)

\* lines 97-100
argRest(defaultOptions, name, description, options) ==
  LET ps == getParams(name, description, orEmpty(options)) IN
    arg(defaultOptions, ps[1],
        Obj(put(put(spread(put(spread(NoKeys, defaultOptions), "description", ps[2].str),
                           ps[3].obj),
                    "required", FALSE),
                "rest", TRUE)),
        NoParam)

\* line 101: the default options of the builder extend returns
argExtend(defaultOptions, options) == spread(defaultOptions, orEmpty(options).obj)

\* line 106: export const arg = argBuilder({parse: s => s})
BaseOptions == put(NoKeys, "parse", "identity")

EntryPoints == {"arg", "required", "optional", "rest"}

call(entry, defaultOptions, ps) ==
  CASE entry = "arg" -> arg(defaultOptions, ps[1], ps[2], ps[3])
    [] entry = "required" -> argRequired(defaultOptions, ps[1], ps[2], ps[3])
    [] entry = "optional" -> argOptional(defaultOptions, ps[1], ps[2], ps[3])
    [] entry = "rest" -> argRest(defaultOptions, ps[1], ps[2], ps[3])

\* ------------------------------------------------------------------ SpecBuilder
InitBuilder ==
  /\ heap = <<>>
  /\ argDefs = <<>>
  /\ argv = <<>>
  /\ defsOutcome = "pending"
  /\ bind = NoBind
  /\ NoCommands
  /\ builders = <<BaseOptions>>
  /\ built = <<>>
  /\ binds = <<>>

\* builders[b].extend(options), options absent or a bag
Extend(b, options) ==
  /\ Len(builders) < MaxBuilders
  /\ builders' = Append(builders, argExtend(builders[b], options))
  /\ UNCHANGED <<heap, argDefs, argv, defsOutcome, bind, cmdVars, built, binds>>

\* builders[b](...), builders[b].required(...), .optional(...), .rest(...)
Build(b, entry, ps) ==
  /\ built' = <<[entry |-> entry, builder |-> b, params |-> ps,
                 spec |-> call(entry, builders[b], ps)]>>
  /\ UNCHANGED <<heap, argDefs, argv, defsOutcome, bind, cmdVars, builders, binds>>

NextBuilder ==
  \/ \E b \in 1..Len(builders) : \E o \in OptionBags : Extend(b, Obj(o))
  \/ \E b \in 1..Len(builders) : Extend(b, NoParam)
  \/ \E b \in 1..Len(builders) : \E entry \in EntryPoints : \E ps \in CallShapes :
        Build(b, entry, ps)

SpecBuilder == InitBuilder /\ [][NextBuilder]_vars

\* ------------------------------------------------------------------ C12
HasRest(a) == "rest" \in a.keys /\ a.rest

\* C12: for every call shape, options bag and builder obtained through
\* extend, required(...) returns a spec with required = true, optional(...)
\* one with required = false and no rest flag, rest(...) one with
\* required = false and rest = true, and each has id = -1.
C12_EntryPointsForceFlags ==
  \A i \in 1..Len(built) :
    LET a == built[i].spec IN
      /\ {"id", "required"} \subseteq a.keys
      /\ a.id = UnsetId
      /\ built[i].entry = "required" => a.required
      /\ built[i].entry = "optional" => (~a.required /\ ~HasRest(a))
      /\ built[i].entry = "rest" => (~a.required /\ HasRest(a))

\* the options the call was given, and whether a rest flag came in with them
OptionsGiven(i) == getParams(built[i].params[1], built[i].params[2], orEmpty(built[i].params[3]))[3].obj
RestCarriedIn(i) == HasRest(builders[built[i].builder]) \/ HasRest(OptionsGiven(i))

\* what the entry points do force: required and id always; optional(...)
\* returns a rest flag exactly when the options or the builder's defaults
\* carried one in.
C12_OptionalKeepsRestCarriedIn ==
  \A i \in 1..Len(built) :
    LET a == built[i].spec IN
      /\ a.id = UnsetId
      /\ built[i].entry = "required" => a.required
      /\ built[i].entry = "optional" => (~a.required /\ (HasRest(a) <=> RestCarriedIn(i)))
      /\ built[i].entry = "rest" => (~a.required /\ HasRest(a))

\* ------------------------------------------------------------------ SpecShare
\* Two validateArgs calls in flight over lists that may share Arg objects.
\* A call runs until its next await: the await of a choices supplier (line
\* 148, after the input was read at line 146) or of a default supplier (line
\* 159); the other call may run while it is suspended.
ShareArgs ==
  { [id |-> UnsetId, required |-> FALSE, rest |-> FALSE,
     choices |-> "fn", parse |-> "int", default |-> "none"],
    [id |-> UnsetId, required |-> FALSE, rest |-> FALSE,
     choices |-> "none", parse |-> "identity", default |-> "d"],
    [id |-> UnsetId, required |-> TRUE, rest |-> FALSE,
     choices |-> "none", parse |-> "identity", default |-> "none"] }

ShareLists == {<<1>>, <<2>>, <<1, 2>>, <<2, 1>>, <<1, 1>>}
ShareTokens == {"1", "a"}
CallIds == {1, 2}

\*   argv      the tokens the call was given
\*   b         the frame of the call
\*   awaiting  whether the call is suspended at an await
\*   input     the input read before the await of the choices supplier
NewCall(defs, tokens) ==
  [argv |-> tokens, b |-> NewBind(defs, tokens), awaiting |-> FALSE, input |-> Undef]

\* whether the next step of the frame starts with an await
atAwait(h, b) ==
  \/ b.pc = "tokens" /\ h[Head(b.todo)].choices = "fn"
  \/ b.pc = "defaults" /\ h[Head(b.missing)].default # "none"

\* run the call up to its next await or to its end
RECURSIVE advance(_, _)
advance(h, c) ==
  IF c.b.pc \in {"returned", "thrown"} THEN c
  ELSE IF atAwait(h, c.b)
  THEN [c EXCEPT !.awaiting = TRUE,
                 !.input = IF c.b.pc = "tokens" THEN At(c.b.args, h[Head(c.b.todo)].id)
                           ELSE Undef]
  ELSE advance(h, [c EXCEPT !.b = step(h, c.b)])

\* continue after the await
resume(h, c) ==
  advance(h, [c EXCEPT !.awaiting = FALSE, !.input = Undef,
                       !.b = IF c.b.pc = "tokens" THEN checkAndParse(h, c.b, c.input)
                             ELSE fillDefault(h, c.b)])

InitShare ==
  /\ heap \in [1..2 -> ShareArgs]
  /\ argDefs = <<>>
  /\ argv = <<>>
  /\ defsOutcome = "pending"
  /\ bind = NoBind
  /\ NoCommands
  /\ builders = <<>>
  /\ built = <<>>
  /\ binds \in [CallIds -> {NewCall(defs, tokens) :
                              defs \in ShareLists, tokens \in SeqsUpTo(ShareTokens, MaxArgv)}]
  /\ \A k \in CallIds : validateArgDefs(Deref(heap, binds[k].b.defs)) = "ok"

\* validateArgs(ctx, defs, args) is called: lines 140-145 and on to the first await
Call(k) ==
  /\ binds[k].b.pc = "start"
  /\ heap' = enterHeap(heap, binds[k].b)
  /\ binds' = [binds EXCEPT ![k] = advance(heap', [@ EXCEPT !.b = enter(heap', @)])]
  /\ UNCHANGED <<argDefs, argv, defsOutcome, bind, cmdVars, builders, built>>

\* the awaited supplier has resolved
Resume(k) ==
  /\ binds[k].awaiting
  /\ binds' = [binds EXCEPT ![k] = resume(heap, @)]
  /\ UNCHANGED <<heap, argDefs, argv, defsOutcome, bind, cmdVars, builders, built>>

NextShare ==
  \/ \E k \in CallIds : Call(k)
  \/ \E k \in CallIds : Resume(k)

SpecShare == InitShare /\ [][NextShare]_vars

\* ------------------------------------------------------------------ C17
CallDone(k) == binds[k].b.pc \in {"returned", "thrown"}
InFlight(k) == binds[k].b.pc # "start" /\ ~CallDone(k)

\* how the call would have ended had it run alone
Alone(k) == validateArgs(heap, binds[k].b.defs, binds[k].argv).bind

SameAsAlone(k) ==
  /\ binds[k].b.pc = Alone(k).pc
  /\ binds[k].b.err = Alone(k).err
  /\ binds[k].b.args = Alone(k).args

\* C17: two calls in flight on the same Command, or on Commands that share
\* spec objects, interleaving at their await points, each end with the
\* outcome and the bound arguments they would have had alone.
C17_IsolatedInvocations ==
  \A k \in CallIds : CallDone(k) => SameAsAlone(k)

\* what holds: calls that bind the same list (the same Command) are isolated
C17_IsolatedOnSameList ==
  (binds # <<>> /\ binds[1].b.defs = binds[2].b.defs) =>
    \A k \in CallIds : CallDone(k) => SameAsAlone(k)

\* ------------------------------------------------------------------ C18
\* the object at position i (1-based) of the list call k binds
SpecAt(k, i) == heap[binds[k].b.defs[i]]

\* every spec of the list carries its 0-based position as id
IdsArePositions(k) ==
  \A i \in 1..Len(binds[k].b.defs) : SpecAt(k, i).id = i - 1

\* the parse calls made so far are those of positions 0, 1, ... in turn
ParsedInPosition(k) ==
  \A j \in 1..Len(binds[k].b.parsed) :
    binds[k].b.parsed[j] = <<j - 1, binds[k].argv[j]>>

\* C18: throughout a bind each spec's id is its 0-based position in the
\* list being bound, so every slot read or written is the spec's own and
\* every supplied position is parsed once by its own spec; stamping again is
\* idempotent; also when an object occurs twice in a list or in the lists
\* of several Commands.
C18_IdIsPosition ==
  \A k \in CallIds : binds[k].b.pc # "start" =>
    /\ ~CallDone(k) => IdsArePositions(k)
    /\ ParsedInPosition(k)
    /\ addIdToArgs(heap, binds[k].b.defs) = heap

\* what holds: when both calls bind the same list and no object occurs in
\* it twice, the ids are the positions throughout
Distinct(defs) == \A i \in 1..Len(defs) : \A j \in 1..Len(defs) : defs[i] = defs[j] => i = j

C18_IdIsPositionOnOneList ==
  (binds # <<>> /\ binds[1].b.defs = binds[2].b.defs /\ Distinct(binds[1].b.defs)) =>
    \A k \in CallIds : binds[k].b.pc # "start" =>
      (IdsArePositions(k) /\ ParsedInPosition(k))

====
